---- MODULE Spec2Model ----
(***************************************************************************)
(* The eCommerce backend of src/main.py as a state machine.                *)
(*                                                                         *)
(* State: the four collections of the document store (category, product,   *)
(* deliverycharge, adminsession), the wall clock read by datetime.now, the *)
(* store's id generator, the token generator, and one record per request   *)
(* worker holding the request it is serving and where it stands in its     *)
(* handler.  A handler is split at its store calls: every store call       *)
(* (find_one, insert_one, update_one, delete_one) is atomic, and other     *)
(* requests may run between two store calls of one handler.  The first     *)
(* step of an admin request is its require_admin dependency (one read of   *)
(* adminsession) together with the local computation that follows it up to *)
(* the next store call.  create_document reads the clock before it calls   *)
(* insert_one, and time may pass between the two: the timestamp of an      *)
(* inserted delivery charge is any clock value between the handler's       *)
(* preceding step and the insert.                                          *)
(*                                                                         *)
(* Documents keep the fields the handlers read: slug (category),           *)
(* category_slug, in_stock (product), name and created_at (deliverycharge: *)
(* get_delivery sorts on it), and the session's token, created_at and      *)
(* expires_at.  The other fields (name, is_active, title, description,     *)
(* price, image_url, updated_at, and created_at of a category or product,  *)
(* which only orders list_products' result) are stored but decide no       *)
(* handler's outcome, and are left out of the stored documents; a payload  *)
(* may still carry them.                                                   *)
(* The response of a request is its status and detail; the body built by   *)
(* the trailing find_one + serialize_doc of a handler is not modelled.     *)
(***************************************************************************)
EXTENDS Integers, FiniteSets, Sequences, TLC

VARIABLES
    category,        \* db["category"]: set of documents
    product,         \* db["product"]
    deliverycharge,  \* db["deliverycharge"]
    adminsession,    \* db["adminsession"]
    clock,           \* datetime.now(timezone.utc), in hours
    nextId,          \* the next _id the store assigns (never reused)
    nextToken,       \* the next uuid4 token (never reused)
    req,             \* worker -> the request it serves / its last response
    removed          \* history: <<collection, id>> of every document a delete removed

vars == <<category, product, deliverycharge, adminsession, clock, nextId, nextToken, req, removed>>

store == <<category, product, deliverycharge>>

\* ------------------------------------------------------------------ bounds
\* Documents ever inserted into category, product and deliverycharge together.
MaxId == 2
\* Successful logins: a second login finds the first one's session stored.
MaxSessions == 2

\* ------------------------------------------------------------------ configuration
SESSION_TTL_HOURS == 24

\* The clock counts hours.  It is observed at 0 and then once every
\* SESSION_TTL_HOURS, so that a session is seen at its creation, at its
\* expires_at exactly, after it, and once more a full TTL later, when a
\* session created after the first one's expiry is still valid.  Any number
\* of store calls may read the same clock value.
MaxClock == 3 * SESSION_TTL_HOURS

\* ------------------------------------------------------------------ inputs
ADMIN_USERNAME == "admin"
ADMIN_PASSWORD == "password123"

Usernames == {"admin", "root"}
Passwords == {"password123", "guess"}

Slugs == {"a", "b"}

\* The id path parameter: 0 is a string that is no ObjectId, n >= 1 is the
\* n-th ObjectId the store generates.
RequestIds == 0..MaxId

\* The X-Admin-Token header: 0 is a missing (or empty) header, -1 a string no
\* login ever returned, n >= 1 the token of the n-th successful login.
HeaderTokens == {-1, 0} \cup {s.token : s \in adminsession}

\* model_dump() of a CategoryCreate / ProductCreate / DeliveryUpsert payload.
CategoryCreates == [slug : Slugs, is_active : {TRUE}]
ProductCreates == [category_slug : Slugs, in_stock : BOOLEAN]
DeliveryUpserts == [name : {"Standard Delivery"}]

\* model_dump(exclude_none=True) of a CategoryUpdate / ProductUpdate payload:
\* the dict of the fields that are present and not null.
EmptyUpdate == [k \in {} |-> TRUE]
CategoryUpdates ==
    {EmptyUpdate} \cup [slug : Slugs] \cup [is_active : {FALSE}]
ProductUpdates ==
    {EmptyUpdate} \cup [category_slug : Slugs] \cup [in_stock : {FALSE}]

\* The routes that depend on require_admin.
AdminOps == {"create_category", "update_category", "delete_category",
             "create_product", "update_product", "delete_product", "set_delivery"}

\* ------------------------------------------------------------------ helpers
Idle == [pc |-> "idle"]

Workers == DOMAIN req

Free(w) == req[w].pc \in {"idle", "done"}

Busy(w) == req[w].pc \in {"check", "write"}

Serving(w, op, pc) == req[w].pc = pc /\ req[w].op = op

\* to_object_id: ObjectId(id_str) succeeds.
ValidObjectId(id) == id >= 1

\* update_one's {"$set": data}: data's fields replace the document's.
SetFields(doc, data) ==
    [k \in DOMAIN doc |-> IF k \in DOMAIN data THEN data[k] ELSE doc[k]]

\* create_document: the payload's fields, the creation timestamp `now` it
\* read from the clock, and the store-assigned _id.
CreateDocument(payload, now) ==
    [k \in DOMAIN payload \cup {"id", "created_at"} |->
        IF k = "id" THEN nextId
        ELSE IF k = "created_at" THEN now
        ELSE payload[k]]

\* The values create_document's clock read can give at its insert_one, in a
\* handler whose preceding step ran at `since`: the read comes after that
\* step and not after the insert.
ClockReads(since) ==
    {now \in since..clock : now % SESSION_TTL_HOURS = 0}

\* The fields of a stored document that the model keeps.
CategoryFields == {"id", "slug"}
ProductFields == {"id", "category_slug", "in_stock"}
DeliveryChargeFields == {"id", "name", "created_at"}

Keep(doc, fields) == [k \in fields |-> doc[k]]

\* Requests that passed their checks and have an insert still to do.
PendingInserts ==
    Cardinality({w \in Workers :
        Busy(w) /\ req[w].op \in {"create_category", "create_product", "set_delivery"}})

\* The store can still assign an id to one more insert.
CanInsert == nextId + PendingInserts <= MaxId

\* The handler raised HTTPException(status, detail), or returned (200).  The
\* response record names the document id the store was asked for (0 when the
\* request was answered before any store call on its collection).
Respond(w, op, id, status, detail) ==
    req' = [req EXCEPT ![w] =
        [pc |-> "done", op |-> op, id |-> id, status |-> status, detail |-> detail]]

\* The handler goes on to its next store call.
Continue(w, pc) == req' = [req EXCEPT ![w].pc = pc]

\* ------------------------------------------------------------------ auth
\* (mutant) the session is rejected from expires_at on, not after it.
RequireAdminEarlyExpiry(t) ==
    IF t = 0 THEN "Missing admin token"
    ELSE IF ~\E s \in adminsession : s.token = t THEN "Invalid token"
    ELSE LET session == CHOOSE s \in adminsession : s.token = t IN
         IF session.expires_at <= clock THEN "Session expired" ELSE "ok"

\* (mutant) expires_at is never looked at.
RequireAdminNoExpiry(t) ==
    IF t = 0 THEN "Missing admin token"
    ELSE IF ~\E s \in adminsession : s.token = t THEN "Invalid token"
    ELSE "ok"

\* require_admin: "ok" when it returns True, else the detail of its 401.
RequireAdmin(t) ==
    IF t = 0 THEN "Missing admin token"
    ELSE IF ~\E s \in adminsession : s.token = t THEN "Invalid token"
    ELSE LET session == CHOOSE s \in adminsession : s.token = t IN
         IF session.expires_at < clock THEN "Session expired" ELSE "ok"

\* Depends(require_admin) raises: the admin request `op` arriving at worker w
\* with header t is answered 401 and its handler never runs.
Unauthorized(w, op, t) ==
    /\ Free(w)
    /\ RequireAdmin(t) # "ok"
    /\ Respond(w, op, 0, 401, RequireAdmin(t))
    /\ UNCHANGED <<category, product, deliverycharge, adminsession, clock,
                   nextId, nextToken, removed>>

\* Depends(require_admin) returns True: the handler of the admin request
\* arriving at worker w runs up to its first store call, where it is at
\* `pc`; `early` is the detail of a 400 the handler raises before that store
\* call ("" when it raises none).
Admit(w, op, t, id, data, early, pc) ==
    /\ Free(w)
    /\ RequireAdmin(t) = "ok"
    /\ IF early # "" THEN Respond(w, op, id, 400, early)
       ELSE req' = [req EXCEPT ![w] =
                [pc |-> pc, op |-> op, id |-> id, data |-> data]]
    /\ UNCHANGED <<category, product, deliverycharge, adminsession, clock,
                   nextId, nextToken, removed>>

\* admin_login
AdminLogin(w, username, password) ==
    /\ Free(w)
    /\ IF username # ADMIN_USERNAME \/ password # ADMIN_PASSWORD
       THEN /\ Respond(w, "admin_login", 0, 401, "Invalid credentials")
            /\ UNCHANGED <<adminsession, nextToken>>
       ELSE /\ nextToken <= MaxSessions
            /\ adminsession' = adminsession \cup
                  {[token |-> nextToken, created_at |-> clock,
                    expires_at |-> clock + SESSION_TTL_HOURS]}
            /\ nextToken' = nextToken + 1
            /\ Respond(w, "admin_login", nextToken, 200, "ok")
    /\ UNCHANGED <<category, product, deliverycharge, clock, nextId, removed>>

\* Time passes.
Tick ==
    /\ clock < MaxClock
    /\ clock' = clock + SESSION_TTL_HOURS
    /\ UNCHANGED <<category, product, deliverycharge, adminsession, nextId,
                   nextToken, req, removed>>

\* ------------------------------------------------------------------ categories
\* create_category: require_admin.
CreateCategoryStart(w, t, payload) ==
    /\ CanInsert
    /\ Admit(w, "create_category", t, 0, payload, "", "check")

\* create_category: existing = find_one({"slug": payload.slug}).
CreateCategoryCheck(w) ==
    /\ Serving(w, "create_category", "check")
    /\ IF \E c \in category : c.slug = req[w].data.slug
       THEN Respond(w, "create_category", 0, 400, "Slug already exists")
       ELSE Continue(w, "write")
    /\ UNCHANGED <<category, product, deliverycharge, adminsession, clock,
                   nextId, nextToken, removed>>

\* create_category: create_document("category", payload).
CreateCategoryInsert(w) ==
    /\ Serving(w, "create_category", "write")
    /\ category' = category \cup {Keep(CreateDocument(req[w].data, clock), CategoryFields)}
    /\ nextId' = nextId + 1
    /\ Respond(w, "create_category", nextId, 200, "ok")
    /\ UNCHANGED <<product, deliverycharge, adminsession, clock, nextToken, removed>>

\* (mutant) the id is parsed before the payload is looked at.
UpdateCategoryStartIdFirst(w, t, id, data) ==
    Admit(w, "update_category", t, id, data,
          IF ~ValidObjectId(id) THEN "Invalid id"
          ELSE IF DOMAIN data = {} THEN "No fields to update"
          ELSE "",
          IF "slug" \in DOMAIN data THEN "check" ELSE "write")

\* update_category: require_admin, the empty-payload test, and to_object_id
\* of the first store call's filter.
UpdateCategoryStart(w, t, id, data) ==
    Admit(w, "update_category", t, id, data,
          IF DOMAIN data = {} THEN "No fields to update"
          ELSE IF ~ValidObjectId(id) THEN "Invalid id"
          ELSE "",
          IF "slug" \in DOMAIN data THEN "check" ELSE "write")

\* update_category: existing = find_one({"slug": ..., "_id": {"$ne": id}}).
UpdateCategoryCheck(w) ==
    /\ Serving(w, "update_category", "check")
    /\ IF \E c \in category : c.slug = req[w].data.slug /\ c.id # req[w].id
       THEN Respond(w, "update_category", req[w].id, 400, "Slug already exists")
       ELSE Continue(w, "write")
    /\ UNCHANGED <<category, product, deliverycharge, adminsession, clock,
                   nextId, nextToken, removed>>

\* (mutant) matched_count is not looked at.
UpdateCategoryWriteUnmatchedOk(w) ==
    /\ Serving(w, "update_category", "write")
    /\ LET matched == {c \in category : c.id = req[w].id} IN
       /\ category' = (category \ matched) \cup
             {SetFields(c, req[w].data) : c \in matched}
       /\ Respond(w, "update_category", req[w].id, 200, "ok")
    /\ UNCHANGED <<product, deliverycharge, adminsession, clock, nextId,
                   nextToken, removed>>

\* update_category: update_one({"_id": id}, {"$set": data, ...}).
UpdateCategoryWrite(w) ==
    /\ Serving(w, "update_category", "write")
    /\ LET matched == {c \in category : c.id = req[w].id} IN
       IF matched = {}
       THEN /\ Respond(w, "update_category", req[w].id, 404, "Category not found")
            /\ UNCHANGED category
       ELSE /\ category' = (category \ matched) \cup
                  {SetFields(c, req[w].data) : c \in matched}
            /\ Respond(w, "update_category", req[w].id, 200, "ok")
    /\ UNCHANGED <<product, deliverycharge, adminsession, clock, nextId,
                   nextToken, removed>>

\* delete_category: require_admin and to_object_id.
DeleteCategoryStart(w, t, id) ==
    Admit(w, "delete_category", t, id, EmptyUpdate,
          IF ~ValidObjectId(id) THEN "Invalid id" ELSE "", "write")

\* (mutant) deleted_count is not looked at.
DeleteCategoryWriteIdempotent(w) ==
    /\ Serving(w, "delete_category", "write")
    /\ LET matched == {c \in category : c.id = req[w].id} IN
       /\ category' = category \ matched
       /\ removed' = removed \cup {<<"category", c.id>> : c \in matched}
       /\ Respond(w, "delete_category", req[w].id, 200, "ok")
    /\ UNCHANGED <<product, deliverycharge, adminsession, clock, nextId, nextToken>>

\* (mutant) the delete cascades to the products of the category's slug.
DeleteCategoryWriteCascade(w) ==
    /\ Serving(w, "delete_category", "write")
    /\ LET matched == {c \in category : c.id = req[w].id} IN
       IF matched = {}
       THEN /\ Respond(w, "delete_category", req[w].id, 404, "Category not found")
            /\ UNCHANGED <<category, product, removed>>
       ELSE /\ category' = category \ matched
            /\ product' = {p \in product : \A c \in matched : p.category_slug # c.slug}
            /\ removed' = removed \cup {<<"category", req[w].id>>}
            /\ Respond(w, "delete_category", req[w].id, 200, "ok")
    /\ UNCHANGED <<deliverycharge, adminsession, clock, nextId, nextToken>>

\* delete_category: delete_one({"_id": id}).
DeleteCategoryWrite(w) ==
    /\ Serving(w, "delete_category", "write")
    /\ LET matched == {c \in category : c.id = req[w].id} IN
       IF matched = {}
       THEN /\ Respond(w, "delete_category", req[w].id, 404, "Category not found")
            /\ UNCHANGED <<category, removed>>
       ELSE /\ category' = category \ matched
            /\ removed' = removed \cup {<<"category", req[w].id>>}
            /\ Respond(w, "delete_category", req[w].id, 200, "ok")
    /\ UNCHANGED <<product, deliverycharge, adminsession, clock, nextId, nextToken>>

\* ------------------------------------------------------------------ products
\* create_product: require_admin.
CreateProductStart(w, t, payload) ==
    /\ CanInsert
    /\ Admit(w, "create_product", t, 0, payload, "", "check")

\* (mutant) the category lookup's result is ignored.
CreateProductCheckSkipped(w) ==
    /\ Serving(w, "create_product", "check")
    /\ Continue(w, "write")
    /\ UNCHANGED <<category, product, deliverycharge, adminsession, clock,
                   nextId, nextToken, removed>>

\* create_product: cat = find_one({"slug": payload.category_slug}).
CreateProductCheck(w) ==
    /\ Serving(w, "create_product", "check")
    /\ IF ~\E c \in category : c.slug = req[w].data.category_slug
       THEN Respond(w, "create_product", 0, 400, "Category does not exist")
       ELSE Continue(w, "write")
    /\ UNCHANGED <<category, product, deliverycharge, adminsession, clock,
                   nextId, nextToken, removed>>

\* create_product: create_document("product", payload).
CreateProductInsert(w) ==
    /\ Serving(w, "create_product", "write")
    /\ product' = product \cup {Keep(CreateDocument(req[w].data, clock), ProductFields)}
    /\ nextId' = nextId + 1
    /\ Respond(w, "create_product", nextId, 200, "ok")
    /\ UNCHANGED <<category, deliverycharge, adminsession, clock, nextToken, removed>>

\* update_product: require_admin, the empty-payload test, and, when the
\* payload has no category_slug, to_object_id of update_one's filter.
UpdateProductStart(w, t, id, data) ==
    Admit(w, "update_product", t, id, data,
          IF DOMAIN data = {} THEN "No fields to update"
          ELSE IF "category_slug" \notin DOMAIN data /\ ~ValidObjectId(id) THEN "Invalid id"
          ELSE "",
          IF "category_slug" \in DOMAIN data THEN "check" ELSE "write")

\* update_product: cat = find_one({"slug": data["category_slug"]}), then
\* to_object_id of update_one's filter.
UpdateProductCheck(w) ==
    /\ Serving(w, "update_product", "check")
    /\ IF ~\E c \in category : c.slug = req[w].data.category_slug
       THEN Respond(w, "update_product", req[w].id, 400, "Category does not exist")
       ELSE IF ~ValidObjectId(req[w].id)
       THEN Respond(w, "update_product", req[w].id, 400, "Invalid id")
       ELSE Continue(w, "write")
    /\ UNCHANGED <<category, product, deliverycharge, adminsession, clock,
                   nextId, nextToken, removed>>

\* update_product: update_one({"_id": id}, {"$set": data, ...}).
UpdateProductWrite(w) ==
    /\ Serving(w, "update_product", "write")
    /\ LET matched == {p \in product : p.id = req[w].id} IN
       IF matched = {}
       THEN /\ Respond(w, "update_product", req[w].id, 404, "Product not found")
            /\ UNCHANGED product
       ELSE /\ product' = (product \ matched) \cup
                  {SetFields(p, req[w].data) : p \in matched}
            /\ Respond(w, "update_product", req[w].id, 200, "ok")
    /\ UNCHANGED <<category, deliverycharge, adminsession, clock, nextId,
                   nextToken, removed>>

\* delete_product: require_admin and to_object_id.
DeleteProductStart(w, t, id) ==
    Admit(w, "delete_product", t, id, EmptyUpdate,
          IF ~ValidObjectId(id) THEN "Invalid id" ELSE "", "write")

\* delete_product: delete_one({"_id": id}).
DeleteProductWrite(w) ==
    /\ Serving(w, "delete_product", "write")
    /\ LET matched == {p \in product : p.id = req[w].id} IN
       IF matched = {}
       THEN /\ Respond(w, "delete_product", req[w].id, 404, "Product not found")
            /\ UNCHANGED <<product, removed>>
       ELSE /\ product' = product \ matched
            /\ removed' = removed \cup {<<"product", req[w].id>>}
            /\ Respond(w, "delete_product", req[w].id, 200, "ok")
    /\ UNCHANGED <<category, deliverycharge, adminsession, clock, nextId, nextToken>>

\* ------------------------------------------------------------------ delivery
\* set_delivery: require_admin.  The request record keeps the clock of this
\* step (`at`), from which create_document's clock read can come.
SetDeliveryStart(w, t, payload) ==
    /\ CanInsert
    /\ Free(w)
    /\ RequireAdmin(t) = "ok"
    /\ req' = [req EXCEPT ![w] =
            [pc |-> "write", op |-> "set_delivery", id |-> 0, data |-> payload,
             at |-> clock]]
    /\ UNCHANGED <<category, product, deliverycharge, adminsession, clock,
                   nextId, nextToken, removed>>

\* set_delivery: create_document("deliverycharge", payload), whose timestamp
\* was read at some time since the handler started.
SetDeliveryInsert(w) ==
    /\ Serving(w, "set_delivery", "write")
    /\ \E now \in ClockReads(req[w].at) :
          deliverycharge' = deliverycharge \cup
             {Keep(CreateDocument(req[w].data, now), DeliveryChargeFields)}
    /\ nextId' = nextId + 1
    /\ Respond(w, "set_delivery", nextId, 200, "ok")
    /\ UNCHANGED <<category, product, adminsession, clock, nextToken, removed>>

\* ------------------------------------------------------------------ public reads
\* get_delivery: find_one(sort=[("created_at", -1)]).  The documents it can
\* return: those of greatest created_at (the store does not say which of
\* several); none when the collection is empty, and the response is null.
GetDelivery ==
    {d \in deliverycharge : \A e \in deliverycharge : e.created_at <= d.created_at}

\* list_products: the documents matching the query (category_slug = "" is
\* a missing or empty query parameter).
ListProducts(category_slug) ==
    {p \in product :
        /\ p.in_stock # FALSE
        /\ category_slug # "" => p.category_slug = category_slug}

\* list_categories
ListCategories == category

\* ------------------------------------------------------------------ specification
Init ==
    /\ category = {}
    /\ product = {}
    /\ deliverycharge = {}
    /\ adminsession = {}
    /\ clock = 0
    /\ nextId = 1
    /\ nextToken = 1
    /\ removed = {}
    /\ req = [w \in {1} |-> Idle]

Next ==
    \/ Tick
    \/ \E w \in Workers, u \in Usernames, p \in Passwords : AdminLogin(w, u, p)
    \/ \E w \in Workers, op \in AdminOps, t \in HeaderTokens : Unauthorized(w, op, t)
    \/ \E w \in Workers, t \in HeaderTokens, c \in CategoryCreates : CreateCategoryStart(w, t, c)
    \/ \E w \in Workers : CreateCategoryCheck(w)
    \/ \E w \in Workers : CreateCategoryInsert(w)
    \/ \E w \in Workers, t \in HeaderTokens, i \in RequestIds, d \in CategoryUpdates :
          UpdateCategoryStart(w, t, i, d)
    \/ \E w \in Workers : UpdateCategoryCheck(w)
    \/ \E w \in Workers : UpdateCategoryWrite(w)
    \/ \E w \in Workers, t \in HeaderTokens, i \in RequestIds : DeleteCategoryStart(w, t, i)
    \/ \E w \in Workers : DeleteCategoryWrite(w)
    \/ \E w \in Workers, t \in HeaderTokens, c \in ProductCreates : CreateProductStart(w, t, c)
    \/ \E w \in Workers : CreateProductCheck(w)
    \/ \E w \in Workers : CreateProductInsert(w)
    \/ \E w \in Workers, t \in HeaderTokens, i \in RequestIds, d \in ProductUpdates :
          UpdateProductStart(w, t, i, d)
    \/ \E w \in Workers : UpdateProductCheck(w)
    \/ \E w \in Workers : UpdateProductWrite(w)
    \/ \E w \in Workers, t \in HeaderTokens, i \in RequestIds : DeleteProductStart(w, t, i)
    \/ \E w \in Workers : DeleteProductWrite(w)
    \/ \E w \in Workers, t \in HeaderTokens, d \in DeliveryUpserts : SetDeliveryStart(w, t, d)
    \/ \E w \in Workers : SetDeliveryInsert(w)

\* One worker: every request runs to its response before the next starts.
Spec == Init /\ [][Next]_vars

\* Two workers: the store calls of two requests interleave.
ConcurrentInit ==
    /\ category = {}
    /\ product = {}
    /\ deliverycharge = {}
    /\ adminsession = {}
    /\ clock = 0
    /\ nextId = 1
    /\ nextToken = 1
    /\ removed = {}
    /\ req = [w \in {1, 2} |-> Idle]

\* The catalog requests of an admin whose session has not expired.
CatalogNext ==
    \/ \E w \in Workers, u \in Usernames, p \in Passwords : AdminLogin(w, u, p)
    \/ \E w \in Workers, t \in HeaderTokens, c \in CategoryCreates : CreateCategoryStart(w, t, c)
    \/ \E w \in Workers : CreateCategoryCheck(w)
    \/ \E w \in Workers : CreateCategoryInsert(w)
    \/ \E w \in Workers, t \in HeaderTokens, i \in RequestIds, d \in CategoryUpdates :
          UpdateCategoryStart(w, t, i, d)
    \/ \E w \in Workers : UpdateCategoryCheck(w)
    \/ \E w \in Workers : UpdateCategoryWrite(w)
    \/ \E w \in Workers, t \in HeaderTokens, i \in RequestIds : DeleteCategoryStart(w, t, i)
    \/ \E w \in Workers : DeleteCategoryWrite(w)
    \/ \E w \in Workers, t \in HeaderTokens, c \in ProductCreates : CreateProductStart(w, t, c)
    \/ \E w \in Workers : CreateProductCheck(w)
    \/ \E w \in Workers : CreateProductInsert(w)
    \/ \E w \in Workers, t \in HeaderTokens, i \in RequestIds, d \in ProductUpdates :
          UpdateProductStart(w, t, i, d)
    \/ \E w \in Workers : UpdateProductCheck(w)
    \/ \E w \in Workers : UpdateProductWrite(w)
    \/ \E w \in Workers, t \in HeaderTokens, i \in RequestIds : DeleteProductStart(w, t, i)
    \/ \E w \in Workers : DeleteProductWrite(w)

ConcurrentSpec == ConcurrentInit /\ [][CatalogNext]_vars

\* ------------------------------------------------------------------ properties
\* What the specification says authorize(token) answers.
Authorize(t) ==
    IF t = 0 THEN "Missing admin token"
    ELSE IF t \notin {s.token : s \in adminsession} THEN "Invalid token"
    ELSE IF \E s \in adminsession : s.token = t /\ clock > s.expires_at
         THEN "Session expired"
    ELSE "ok"

Answered(w, op, status, detail) ==
    /\ req[w].pc = "done"
    /\ req[w].op = op
    /\ req[w].status = status
    /\ req[w].detail = detail

HasId(collection, id) == \E d \in collection : d.id = id

\* C1: no two stored Category documents have the same slug, whatever the
\* interleaving of create_category, update_category and delete_category.
SlugsUnique ==
    \A c1 \in category, c2 \in category : c1.slug = c2.slug => c1 = c2

\* C2: a session's expires_at is fixed at login as the clock + TTL, and its
\* token is no other session's; require_admin accepts the token at every
\* clock value up to expires_at and answers "Session expired" at every clock
\* value after it, whatever steps (further logins, rejected and admitted
\* admin requests, their store calls, the passing of time) come in between;
\* no step removes or changes a stored session, and a token once rejected as
\* expired stays rejected.
SessionLifetime ==
    [][ /\ \A s \in adminsession' \ adminsession :
            /\ s.created_at = clock
            /\ s.expires_at = clock + SESSION_TTL_HOURS
            /\ \A o \in adminsession : o.token # s.token
        /\ \A s \in adminsession' :
            /\ s.expires_at = s.created_at + SESSION_TTL_HOURS
            /\ clock' <= s.expires_at => RequireAdmin(s.token)' = "ok"
            /\ clock' > s.expires_at => RequireAdmin(s.token)' = "Session expired"
        /\ \A s \in adminsession :
            /\ s \in adminsession'
            /\ RequireAdmin(s.token) = "Session expired"
                  => RequireAdmin(s.token)' = "Session expired"
      ]_vars

\* C2 witness: a session expired; after its expiry a further login created a
\* second session, a request admitted with the second session's token
\* inserted a delivery charge, and time went on; now the second session is
\* still accepted and an admin request that carried the first one's token
\* has just been answered 401 "Session expired".
SessionExpiredSeen ==
    \E w \in Workers, s1 \in adminsession, s2 \in adminsession :
        /\ s2.created_at > s1.expires_at
        /\ \E d \in deliverycharge : d.created_at >= s2.created_at
        /\ clock > s2.created_at
        /\ RequireAdmin(s1.token) = "Session expired"
        /\ RequireAdmin(s2.token) = "ok"
        /\ req[w].pc = "done" /\ req[w].status = 401
        /\ req[w].detail = "Session expired"

\* The first step of an admin request arriving at worker w with header t.
AdminRequest(w, t) ==
    \/ \E op \in AdminOps : Unauthorized(w, op, t)
    \/ \E c \in CategoryCreates : CreateCategoryStart(w, t, c)
    \/ \E i \in RequestIds, d \in CategoryUpdates : UpdateCategoryStart(w, t, i, d)
    \/ \E i \in RequestIds : DeleteCategoryStart(w, t, i)
    \/ \E c \in ProductCreates : CreateProductStart(w, t, c)
    \/ \E i \in RequestIds, d \in ProductUpdates : UpdateProductStart(w, t, i, d)
    \/ \E i \in RequestIds : DeleteProductStart(w, t, i)
    \/ \E d \in DeliveryUpserts : SetDeliveryStart(w, t, d)

\* C3: an admin request with a missing, unknown or expired token is answered
\* 401 with the matching detail and leaves the four collections unchanged
\* (its handler never starts); and no step changes category, product or
\* deliverycharge unless it is a store call of a request that was admitted.
UnauthorizedRejected ==
    /\ \A w \in Workers, t \in HeaderTokens :
          (Free(w) /\ Authorize(t) # "ok") =>
             /\ \A op \in AdminOps : ENABLED Unauthorized(w, op, t)
             /\ ~ENABLED (/\ AdminRequest(w, t)
                          /\ ~(/\ req'[w].pc = "done"
                               /\ req'[w].status = 401
                               /\ req'[w].detail = Authorize(t)
                               /\ category' = category
                               /\ product' = product
                               /\ deliverycharge' = deliverycharge
                               /\ adminsession' = adminsession))
    /\ (\A w \in Workers : ~Busy(w)) =>
          ~ENABLED (Next /\ store' # store)

\* C3 witness: set_delivery was tried with an expired token, was answered 401,
\* and there is no delivery charge.
ExpiredTokenRejected ==
    \E w \in Workers :
        /\ Answered(w, "set_delivery", 401, "Session expired")
        /\ deliverycharge = {}

\* C4: create_product, run alone: with no category of the payload's
\* category_slug it answers 400 "Category does not exist" and product is
\* unchanged; with one, it answers 200 and product gains exactly one
\* document, which has the payload's fields.
CreateProductChecksCategory ==
    [][ \A w \in Workers :
          /\ (Serving(w, "create_product", "check") /\ req'[w] # req[w]) =>
                IF \E c \in category : c.slug = req[w].data.category_slug
                THEN req'[w].pc = "write" /\ store' = store
                ELSE /\ req'[w].pc = "done" /\ req'[w].status = 400
                     /\ req'[w].detail = "Category does not exist"
                     /\ store' = store
          /\ (Serving(w, "create_product", "write") /\ req'[w] # req[w]) =>
                /\ \E c \in category : c.slug = req[w].data.category_slug
                /\ req'[w].pc = "done" /\ req'[w].status = 200
                /\ \E p \in product' :
                      /\ ~HasId(product, p.id) /\ ~HasId(category, p.id)
                      /\ product' = product \cup {p}
                      /\ Cardinality(product') = Cardinality(product) + 1
                      /\ p.category_slug = req[w].data.category_slug
                      /\ p.in_stock = req[w].data.in_stock
                /\ category' = category /\ deliverycharge' = deliverycharge
      ]_vars

\* C4 witness: a product was created under an existing category.
ProductCreated ==
    \E w \in Workers, p \in product :
        /\ Answered(w, "create_product", 200, "ok")
        /\ req[w].id = p.id
        /\ \E c \in category : c.slug = p.category_slug

\* C5: at the step that inserts a product or writes a product's
\* category_slug, a category of that slug is in the store.
ProductWriteHasCategory ==
    [][ \A w \in Workers :
          ( \/ CreateProductInsert(w)
            \/ /\ UpdateProductWrite(w)
               /\ "category_slug" \in DOMAIN req[w].data
               /\ HasId(product, req[w].id) )
          => \E c \in category : c.slug = req[w].data.category_slug
      ]_vars

\* The request of worker w is answered 400 "No fields to update" and the
\* store is as before.
EmptyUpdateAnswered(w) ==
    /\ req'[w].pc = "done"
    /\ req'[w].status = 400
    /\ req'[w].detail = "No fields to update"
    /\ category' = category
    /\ product' = product
    /\ deliverycharge' = deliverycharge

\* C6: an admitted update_category or update_product with an empty payload is
\* answered 400 "No fields to update" and leaves the store unchanged, for an
\* id that matches a document, matches none, or is malformed.
EmptyUpdateRejected ==
    \A w \in Workers, t \in HeaderTokens, i \in RequestIds :
        (Free(w) /\ Authorize(t) = "ok") =>
            /\ ENABLED UpdateCategoryStart(w, t, i, EmptyUpdate)
            /\ ENABLED UpdateProductStart(w, t, i, EmptyUpdate)
            /\ ~ENABLED (UpdateCategoryStart(w, t, i, EmptyUpdate) /\ ~EmptyUpdateAnswered(w))
            /\ ~ENABLED (UpdateProductStart(w, t, i, EmptyUpdate) /\ ~EmptyUpdateAnswered(w))

\* C6 witness: an empty update_category was answered 400 while a category is
\* stored.
EmptyUpdateSeen ==
    \E w \in Workers :
        /\ Answered(w, "update_category", 400, "No fields to update")
        /\ category # {}

\* An admitted update (non-empty payload) of a well-formed id that matches no
\* document of its collection answers.
UpdateOfMissingAnswers(w, op, collection) ==
    /\ Busy(w)
    /\ req[w].op = op
    /\ ValidObjectId(req[w].id)
    /\ ~HasId(collection, req[w].id)
    /\ req'[w].pc = "done"

\* C7 as claimed: an update of a well-formed id that matches no document is
\* answered 404 and leaves the store unchanged, whatever the payload.
UpdateOfMissingIsNotFound ==
    [][ \A w \in Workers :
          /\ UpdateOfMissingAnswers(w, "update_category", category) =>
                (req'[w].status = 404 /\ store' = store)
          /\ UpdateOfMissingAnswers(w, "update_product", product) =>
                (req'[w].status = 404 /\ store' = store)
      ]_vars

\* C7 amended: such an update leaves the store unchanged and is answered 404,
\* except that update_category with a slug that a stored category holds is
\* answered 400 "Slug already exists", and update_product with a
\* category_slug that no stored category holds is answered 400 "Category
\* does not exist".
UpdateOfMissingOutcome ==
    [][ \A w \in Workers :
          /\ UpdateOfMissingAnswers(w, "update_category", category) =>
                /\ store' = store
                /\ IF /\ "slug" \in DOMAIN req[w].data
                      /\ \E c \in category : c.slug = req[w].data.slug
                   THEN req'[w].status = 400 /\ req'[w].detail = "Slug already exists"
                   ELSE req'[w].status = 404 /\ req'[w].detail = "Category not found"
          /\ UpdateOfMissingAnswers(w, "update_product", product) =>
                /\ store' = store
                /\ IF /\ "category_slug" \in DOMAIN req[w].data
                      /\ ~\E c \in category : c.slug = req[w].data.category_slug
                   THEN req'[w].status = 400 /\ req'[w].detail = "Category does not exist"
                   ELSE req'[w].status = 404 /\ req'[w].detail = "Product not found"
      ]_vars

\* C7 witness: update_category of an id that matches no category was answered
\* 404.
UpdateOfMissingSeen ==
    \E w \in Workers :
        /\ Answered(w, "update_category", 404, "Category not found")
        /\ ValidObjectId(req[w].id)
        /\ ~HasId(category, req[w].id)
        /\ category # {}

\* C8: get_delivery returns the most recently inserted DeliveryCharge
\* document (after two successive set_delivery, the second's, never the
\* first's), and null when none was inserted.
GetDeliveryIsLatest ==
    \A d \in GetDelivery : \A e \in deliverycharge : e.id <= d.id

\* The delete request `op` of worker w makes its store call.
DeleteAnswers(w, op) ==
    Serving(w, op, "write") /\ req'[w] # req[w]

\* What that store call does to its collection and answers: for an id that
\* matches a document, and for an id that an earlier delete removed.
DeleteOutcome(w, collection, collectionNext, name, others) ==
    /\ HasId(collection, req[w].id) =>
          /\ req'[w].pc = "done" /\ req'[w].status = 200
          /\ \E d \in collection :
                d.id = req[w].id /\ collectionNext = collection \ {d}
          /\ Cardinality(collectionNext) = Cardinality(collection) - 1
          /\ others
    /\ <<name, req[w].id>> \in removed =>
          /\ req'[w].pc = "done" /\ req'[w].status = 404
          /\ collectionNext = collection
          /\ others

\* C9: a delete of an id that matches a document answers 200 and removes
\* exactly that document; a delete of an id that an earlier delete removed
\* answers 404 and changes nothing; an id once removed matches no document
\* again.
DeleteTwice ==
    [][ /\ \A w \in Workers :
            /\ DeleteAnswers(w, "delete_category") =>
                  DeleteOutcome(w, category, category', "category",
                                product' = product /\ deliverycharge' = deliverycharge)
            /\ DeleteAnswers(w, "delete_product") =>
                  DeleteOutcome(w, product, product', "product",
                                category' = category /\ deliverycharge' = deliverycharge)
        /\ \A r \in removed' :
            ~HasId(category', r[2]) /\ ~HasId(product', r[2])
      ]_vars

\* C9 witness: delete_category of an id that delete_category removed earlier
\* was answered 404.
SecondDeleteSeen ==
    \E w \in Workers :
        /\ Answered(w, "delete_category", 404, "Category not found")
        /\ <<"category", req[w].id>> \in removed

\* C10: delete_category leaves product unchanged: the products of the removed
\* category's slug are still stored with the same fields, and those in stock
\* are still in list_products filtered by that slug.
DeleteCategoryKeepsProducts ==
    [][ \A w \in Workers :
          DeleteAnswers(w, "delete_category") =>
             /\ product' = product
             /\ \A c \in category \ category', p \in product :
                   p.category_slug = c.slug =>
                      /\ p \in product'
                      /\ p.in_stock => p \in ListProducts(c.slug)'
      ]_vars

\* C10 witness: a category was removed, and an in-stock product of a slug no
\* category has is stored and listed under that slug.
OrphanListed ==
    \E w \in Workers, p \in product :
        /\ Answered(w, "delete_category", 200, "ok")
        /\ p.in_stock
        /\ ~\E c \in category : c.slug = p.category_slug
        /\ p \in ListProducts(p.category_slug)

====
